---- MODULE Spec2Model ----
(***************************************************************************)
(* Schema explorer (src/app.js): the schema model, the FK index audit, the *)
(* FK graph, and the diagram's interaction state with its derived          *)
(* rendering (edge highlight / opacity, isolation dimming, inspector).     *)
(*                                                                         *)
(* A JavaScript object is a record; a property that is absent in the       *)
(* object (undefined) is a field that is absent from the record's DOMAIN.  *)
(* The DOM elements the handlers read and write are modelled by the        *)
(* attributes and classes the code touches.                                *)
(***************************************************************************)
EXTENDS Integers, Sequences, FiniteSets, TLC

VARIABLES
    schemaShape,    \* what data.js left in window.SCHEMA: "ok" (objects is an array),
                    \* "absent" (no window.SCHEMA), "objectsNotArray"
    objects,        \* window.SCHEMA.objects (immutable after load)
    pc,             \* "loading" before the script body and init() ran, then "ready",
                    \* or "failed" when the script body returned at the SCHEMA guard
    consoleErrors,  \* the messages written with console.error
    nodePos,        \* const nodePos (Map: table key -> {x, y})
    auditCalls,     \* calls of auditFkIndexes so far (bounds the exploration only)
    fkIndexIssues,  \* let fkIndexIssues
    tables,         \* const tables
    edges,          \* const edges
    state,          \* const state (view, selected, hovered, showEdges, isolateMode, zoom, pan)
    svgEdges,       \* the path.edge-line elements of #viewport, in document order
    svgNodes,       \* the g.diagram-node elements of #viewport, in document order
    listItems,      \* the div.list-item elements of #objectList
    inspector,      \* what #inspector shows
    isPanning,      \* let isPanning (closure of wireEvents)
    startPoint,     \* let startPoint (closure of wireEvents)
    gestures        \* wheel events and drags so far (bounds the exploration only)

vars == <<schemaShape, objects, pc, consoleErrors, nodePos, auditCalls, fkIndexIssues,
          tables, edges, state, svgEdges, svgNodes, listItems, inspector, isPanning,
          startPoint, gestures>>

(***************************************************************************)
(* Bounds of the exploration                                               *)
(***************************************************************************)
MaxCols == 2     \* columns per generated table
MaxIdx == 2      \* indexes per generated table
MaxGestures == 1 \* wheel events and drags per behaviour
MaxTables == 7   \* tables of a generated layout dataset
MaxAudits == 3   \* calls of auditFkIndexes per behaviour
MaxDrags == 3    \* drags per behaviour of the drag specification
MaxWheels == 15  \* wheel events per behaviour of the pan and zoom specification

(***************************************************************************)
(* JavaScript values                                                       *)
(***************************************************************************)
Null == "<null>"                 \* null; every key of the dataset is a non-empty string
Truthy(k) == k # Null /\ k # ""  \* ToBoolean of a string-or-null
Or(a, b) == IF Truthy(a) THEN a ELSE b   \* a || b

Min(a, b) == IF a < b THEN a ELSE b   \* Math.min
Max(a, b) == IF a > b THEN a ELSE b   \* Math.max

Has(o, f) == f \in DOMAIN o
Undefined == "<undefined>"                          \* what reading an absent property gives
Prop(o, f) == IF Has(o, f) THEN o[f] ELSE Undefined   \* o.f
Columns(o) == IF Has(o, "columns") THEN o.columns ELSE <<>>    \* o.columns || []
Indexes(o) == IF Has(o, "indexes") THEN o.indexes ELSE <<>>    \* o.indexes || []

RECURSIVE Concat(_)
Concat(ss) == IF ss = <<>> THEN <<>> ELSE Head(ss) \o Concat(Tail(ss))

(***************************************************************************)
(* Datasets the model is loaded with.  Object shape as in the bundled      *)
(* data: key, type, name, and for tables optional columns and indexes.     *)
(* Keys are unique, table names are unique among tables.                   *)
(***************************************************************************)
ColNames == <<"x_id", "y_id", "z_id", "w_id">>

PlainCol(n) == [name |-> n]
FkCol(n, target) == [name |-> n, fk |-> [table |-> target, column |-> "id"]]

\* a column list from a choice, per position, of "no fk" (Null) or an FK target name
MkCols(f) == [i \in 1..Len(f) |-> IF f[i] = Null THEN PlainCol(ColNames[i])
                                                 ELSE FkCol(ColNames[i], f[i])]
ColSeqs(targets) ==
    {MkCols(f) : f \in UNION {[1..n -> targets \cup {Null}] : n \in 0..MaxCols}}

IdxColLists == {<<>>, <<"x_id">>, <<"y_id">>, <<"x_id", "y_id">>, <<"y_id", "x_id">>}
IndexRecs == {[name |-> "idx"]} \cup {[name |-> "idx", columns |-> c] : c \in IdxColLists}
IdxSeqs == UNION {[1..n -> IndexRecs] : n \in 0..MaxIdx}

Table(k, n) == [key |-> k, type |-> "table", name |-> n]
TableC(k, n, cols) == [key |-> k, type |-> "table", name |-> n, columns |-> cols]
TableCI(k, n, cols, idxs) ==
    [key |-> k, type |-> "table", name |-> n, columns |-> cols, indexes |-> idxs]

EnumObj == [key |-> "enum_status", type |-> "enum", name |-> "status"]
ViewObj == [key |-> "view_c", type |-> "view", name |-> "c"]  \* a view named like table c

\* entries that lack the type, the name, or both
NoTypeObj == [key |-> "orphan", name |-> "orphan"]
NoNameObj == [key |-> "table_anon", type |-> "table"]
BareObj == [key |-> "bare"]
MalformedEntries == {NoTypeObj, NoNameObj, BareObj}
MalformedDatasets ==
    {<<TableC("table_a", "a", MkCols(<<"b">>)), m, Table("table_b", "b")>> :
        m \in MalformedEntries}
    \cup {<<m, EnumObj>> : m \in MalformedEntries}

\* n tables after a non-table object, enough of them to fill more than one grid row
LayoutKeys ==
    <<"table_1", "table_2", "table_3", "table_4", "table_5", "table_6", "table_7",
      "table_8", "table_9">>
LayoutDataset(n) == <<EnumObj>> \o [i \in 1..n |-> Table(LayoutKeys[i], LayoutKeys[i])]
LayoutDatasets == {LayoutDataset(n) : n \in 0..MaxTables}

\* one audited table (columns x indexes, either possibly absent) and its FK target
AuditDatasets ==
    {<<TableCI("table_a", "a", cs, is), Table("table_b", "b")>> :
        cs \in ColSeqs({"b", "ghost"}), is \in IdxSeqs}
    \cup {<<TableC("table_a", "a", cs), Table("table_b", "b")>> : cs \in ColSeqs({"b", "ghost"})}
    \cup {<<[key |-> "table_a", type |-> "table", name |-> "a", indexes |-> is],
            Table("table_b", "b")>> : is \in IdxSeqs}

GraphCols == ColSeqs({"a", "b", "c", "ghost"})
Graph(csA, csB) ==
    <<EnumObj, ViewObj, TableC("table_a", "a", csA), TableC("table_b", "b", csB),
      Table("table_c", "c")>>
\* three tables whose FK columns point anywhere (self, each other, nowhere)
GraphDatasets ==
    {Graph(csA, csB) : csA \in GraphCols, csB \in GraphCols}
    \cup {<<EnumObj, ViewObj, Table("table_a", "a"), TableC("table_b", "b", csB),
            Table("table_c", "c")>> : csB \in GraphCols}

\* the topologies the interaction is explored on: a triangle (an edge between two
\* neighbours of a), a chain end with an edge outside its neighbourhood, a self loop
\* with a dangling FK and two isolated tables, a double edge with a back edge
UIGraph(csA, csB) ==
    <<EnumObj, TableC("table_a", "a", csA), TableC("table_b", "b", csB),
      Table("table_c", "c")>>
UIDatasets ==
    {UIGraph(MkCols(<<"b", "c">>), MkCols(<<"c">>)),
     UIGraph(MkCols(<<"b", "c">>), <<>>),
     UIGraph(MkCols(<<"a", "ghost">>), <<>>),
     UIGraph(MkCols(<<"b", "b">>), MkCols(<<Null, "a">>))}

(***************************************************************************)
(* Schema model (app.js 22-29)                                             *)
(***************************************************************************)
\* byType.get(t) || []
byType(objs, t) == SelectSeq(objs, LAMBDA o : Prop(o, "type") = t)

\* A lookup result is <<obj>> when found and <<>> when not (undefined).
\* byKey.get(k); new Map(pairs) keeps the last object of a key.
byKey(objs, k) ==
    LET hits == {i \in 1..Len(objs) : objs[i].key = k}
    IN IF hits = {} THEN <<>> ELSE <<objs[CHOOSE i \in hits : \A j \in hits : j <= i]>>

Keys(objs) == {objs[i].key : i \in 1..Len(objs)}

(***************************************************************************)
(* FK index audit (app.js 811-846)                                         *)
(***************************************************************************)
\* variant: the FK column at any position of an index counts as covered
hasIndexAnyPosition(tbl, fkColName) ==
    \E i \in 1..Len(Indexes(tbl)) :
        LET idx == Indexes(tbl)[i]
            idxCols == IF Has(idx, "columns") THEN idx.columns ELSE <<>>
        IN \E k \in 1..Len(idxCols) : idxCols[k] = fkColName

\* the .some(...) test: some index has fkColName as idxCols[0]
hasIndex(tbl, fkColName) ==
    \E i \in 1..Len(Indexes(tbl)) :
        LET idx == Indexes(tbl)[i]
            idxCols == IF Has(idx, "columns") THEN idx.columns ELSE <<>>
        IN Len(idxCols) > 0 /\ idxCols[1] = fkColName

\* variant: the suggested index is put on the referenced table
IssueOnReferencedTable(tbl, col) ==
    [table |-> tbl.name,
     column |-> col.name,
     referencedTable |-> col.fk.table,
     suggestion |-> "CREATE INDEX idx_" \o col.fk.table \o "_" \o col.name \o " ON "
                    \o col.fk.table \o "(" \o col.name \o ");"]

Issue(tbl, col) ==
    [table |-> tbl.name,
     column |-> col.name,
     referencedTable |-> col.fk.table,
     suggestion |-> "CREATE INDEX idx_" \o tbl.name \o "_" \o col.name \o " ON "
                    \o tbl.name \o "(" \o col.name \o ");"]

\* the inner loop over tbl.columns
TableIssues(tbl) ==
    Concat([j \in 1..Len(Columns(tbl)) |->
        LET col == Columns(tbl)[j]
        IN IF ~Has(col, "fk") THEN <<>>
           ELSE IF hasIndex(tbl, col.name) THEN <<>>
           ELSE <<Issue(tbl, col)>>])

auditFkIndexes(objs) ==
    LET tbls == byType(objs, "table")
    IN Concat([i \in 1..Len(tbls) |-> TableIssues(tbls[i])])

\* variant: the findings are pushed onto the list as the last call left it
runAuditKeepsList(issues, objs) == issues \o auditFkIndexes(objs)

\* one call of auditFkIndexes, issues being the shared list before the call: the
\* list is replaced by an empty one, the findings are pushed, the list is returned
runAudit(issues, objs) ==
    LET emptied == SubSeq(issues, 1, 0)
    IN emptied \o auditFkIndexes(objs)

(***************************************************************************)
(* Layout (app.js 851-867)                                                 *)
(***************************************************************************)
NODE_W == 200
NODE_PAD == 40
COL_COUNT == 6
ROW_HEIGHT == 160

\* variant: the tables are laid out in one row
gridPositionSingleRow(i) ==
    [x |-> i * (NODE_W + NODE_PAD) + 50, y |-> 50]

\* the position of the table at index i (0-based) of tables
gridPosition(i) ==
    LET col == i % COL_COUNT
        row == i \div COL_COUNT
    IN [x |-> col * (NODE_W + NODE_PAD) + 50, y |-> row * ROW_HEIGHT + 50]

(***************************************************************************)
(* Graph (app.js 856-881)                                                  *)
(***************************************************************************)
\* variant: the name is looked up among the objects of every type
findAnyType(objs, name) ==
    LET hits == {i \in 1..Len(objs) : Prop(objs[i], "name") = name}
    IN IF hits = {} THEN <<>> ELSE <<objs[CHOOSE i \in hits : \A j \in hits : i <= j]>>

\* objects.find(o => o.type === "table" && o.name === name): the first match
findTable(objs, name) ==
    LET hits == {i \in 1..Len(objs) : Prop(objs[i], "type") = "table"
                                       /\ Prop(objs[i], "name") = name}
    IN IF hits = {} THEN <<>> ELSE <<objs[CHOOSE i \in hits : \A j \in hits : i <= j]>>

\* variant: an FK column gives an edge whether or not its target is found
TableEdgesUnresolved(objs, t) ==
    Concat([j \in 1..Len(Columns(t)) |->
        LET c == Columns(t)[j]
        IN IF ~Has(c, "fk") THEN <<>>
           ELSE <<[from |-> t.key, to |-> "table_" \o c.fk.table, label |-> c.name]>>])

TableEdges(objs, t) ==
    Concat([j \in 1..Len(Columns(t)) |->
        LET c == Columns(t)[j]
        IN IF ~Has(c, "fk") THEN <<>>
           ELSE LET target == findTable(objs, c.fk.table)
                IN IF target = <<>> THEN <<>>
                   ELSE <<[from |-> t.key, to |-> target[1].key, label |-> c.name]>>])

\* variant: one edge per pair of tables, the first FK column's
buildEdgesMerged(objs, tbls) ==
    LET all == Concat([i \in 1..Len(tbls) |-> TableEdges(objs, tbls[i])])
        first == SelectSeq([k \in 1..Len(all) |-> k],
                           LAMBDA k : \A j \in 1..(k - 1) :
                                         all[j].from # all[k].from \/ all[j].to # all[k].to)
    IN [n \in 1..Len(first) |-> all[first[n]]]

buildEdges(objs, tbls) == Concat([i \in 1..Len(tbls) |-> TableEdges(objs, tbls[i])])

\* the keys nodePos has an entry for
nodePosKeys(tbls) == {tbls[i].key : i \in 1..Len(tbls)}

\* tables.forEach((t, i) => nodePos.set(t.key, ...)): a later set of a key replaces
\* the earlier one
layout(tbls) ==
    [k \in nodePosKeys(tbls) |->
        LET i == CHOOSE i \in 1..Len(tbls) :
                    tbls[i].key = k /\ \A j \in 1..Len(tbls) : tbls[j].key = k => j <= i
        IN gridPosition(i - 1)]

\* variant: only the tables the key points to
getOutgoingKeys(eds, key) ==
    {key} \cup {eds[i].to : i \in {j \in 1..Len(eds) : eds[j].from = key}}

\* variant: only the tables that point to the key
getIncomingKeys(eds, key) ==
    {key} \cup {eds[i].from : i \in {j \in 1..Len(eds) : eds[j].to = key}}

\* variant: the neighbour set starts empty
getNeighborKeysNoSelf(eds, key) ==
    {eds[i].to : i \in {j \in 1..Len(eds) : eds[j].from = key}}
        \cup {eds[i].from : i \in {j \in 1..Len(eds) : eds[j].to = key}}

getNeighborKeys(eds, key) ==
    {key} \cup {eds[i].to : i \in {j \in 1..Len(eds) : eds[j].from = key}}
          \cup {eds[i].from : i \in {j \in 1..Len(eds) : eds[j].to = key}}

(***************************************************************************)
(* Referenced By (app.js 1315-1327)                                        *)
(***************************************************************************)
\* variant: a table's references to itself are left out
findIncomingReferencesNoSelf(objs, tableName) ==
    LET tbls == byType(objs, "table")
    IN Concat([i \in 1..Len(tbls) |->
          Concat([j \in 1..Len(Columns(tbls[i])) |->
              LET col == Columns(tbls[i])[j]
              IN IF Has(col, "fk") /\ col.fk.table = tableName
                    /\ Prop(tbls[i], "name") # tableName
                 THEN <<[table |-> Prop(tbls[i], "name"), column |-> col.name]>>
                 ELSE <<>>])])

findIncomingReferences(objs, tableName) ==
    LET tbls == byType(objs, "table")
    IN Concat([i \in 1..Len(tbls) |->
          Concat([j \in 1..Len(Columns(tbls[i])) |->
              LET col == Columns(tbls[i])[j]
              IN IF Has(col, "fk") /\ col.fk.table = tableName
                 THEN <<[table |-> Prop(tbls[i], "name"), column |-> col.name]>>
                 ELSE <<>>])])

(***************************************************************************)
(* Diagram rendering (app.js 972-1146)                                     *)
(***************************************************************************)
\* variant: the hovered key takes precedence
activeKeyHoverFirst(st) == Or(st.hovered, st.selected)

\* const activeKey = state.selected || state.hovered
activeKey(st) == Or(st.selected, st.hovered)

\* variant: mode off still shows the highlighted edges
edgeLineVisibilityOffShowsHighlight(st, line) ==
    LET isHighlighted == Truthy(activeKey(st))
                         /\ (line.from = activeKey(st) \/ line.to = activeKey(st))
    IN [line EXCEPT
          !.highlight = isHighlighted,
          !.markerEnd = IF isHighlighted THEN "url(#arrowHi)" ELSE "url(#arrow)",
          !.opacity = IF st.showEdges = "all"
                      THEN (IF isHighlighted THEN "1" ELSE "0.4")
                      ELSE (IF isHighlighted THEN "1" ELSE "0")]

\* updateEdgeVisibility on one path.edge-line
edgeLineVisibility(st, line) ==
    LET isHighlighted == Truthy(activeKey(st))
                         /\ (line.from = activeKey(st) \/ line.to = activeKey(st))
    IN [line EXCEPT
          !.highlight = isHighlighted,
          !.markerEnd = IF isHighlighted THEN "url(#arrowHi)" ELSE "url(#arrow)",
          !.opacity = IF st.showEdges = "off" THEN "0"
                      ELSE IF st.showEdges = "all"
                           THEN (IF isHighlighted THEN "1" ELSE "0.4")
                           ELSE (IF isHighlighted THEN "1" ELSE "0")]

updateEdgeVisibility(st, lines) ==
    [i \in 1..Len(lines) |-> edgeLineVisibility(st, lines[i])]

\* variant: the isolation flag is not consulted
isolateNodesAlways(st, eds, nodes) ==
    IF ~Truthy(st.selected)
    THEN [i \in 1..Len(nodes) |-> [nodes[i] EXCEPT !.dim = FALSE]]
    ELSE LET visibleKeys == getNeighborKeys(eds, st.selected)
         IN [i \in 1..Len(nodes) |->
                [nodes[i] EXCEPT !.dim = (nodes[i].key \notin visibleKeys)]]

\* variant: isolation is applied only when the selected key has a node
isolateNodesOfTables(st, eds, nodes) ==
    IF ~st.isolateMode \/ ~Truthy(st.selected)
       \/ ~(\E i \in 1..Len(nodes) : nodes[i].key = st.selected)
    THEN [i \in 1..Len(nodes) |-> [nodes[i] EXCEPT !.dim = FALSE]]
    ELSE LET visibleKeys == getNeighborKeys(eds, st.selected)
         IN [i \in 1..Len(nodes) |->
                [nodes[i] EXCEPT !.dim = (nodes[i].key \notin visibleKeys)]]

\* applyIsolateMode on the nodes
isolateNodes(st, eds, nodes) ==
    IF ~st.isolateMode \/ ~Truthy(st.selected)
    THEN [i \in 1..Len(nodes) |-> [nodes[i] EXCEPT !.dim = FALSE]]
    ELSE LET visibleKeys == getNeighborKeys(eds, st.selected)
         IN [i \in 1..Len(nodes) |->
                [nodes[i] EXCEPT !.dim = (nodes[i].key \notin visibleKeys)]]

\* variant: isolation shows an edge by its opacity, undimmed edges fully
isolateEdgesSetsOpacity(st, eds, lines) ==
    IF ~st.isolateMode \/ ~Truthy(st.selected)
    THEN [i \in 1..Len(lines) |-> [lines[i] EXCEPT !.dim = FALSE]]
    ELSE LET visibleKeys == getNeighborKeys(eds, st.selected)
         IN [i \in 1..Len(lines) |->
                LET shown == lines[i].from \in visibleKeys /\ lines[i].to \in visibleKeys
                IN [lines[i] EXCEPT !.dim = ~shown,
                                    !.opacity = IF shown THEN "1" ELSE @]]

\* variant: an edge stays undimmed when either endpoint is visible
isolateEdgesEitherEnd(st, eds, lines) ==
    IF ~st.isolateMode \/ ~Truthy(st.selected)
    THEN [i \in 1..Len(lines) |-> [lines[i] EXCEPT !.dim = FALSE]]
    ELSE LET visibleKeys == getNeighborKeys(eds, st.selected)
         IN [i \in 1..Len(lines) |->
                [lines[i] EXCEPT
                   !.dim = ~(lines[i].from \in visibleKeys \/ lines[i].to \in visibleKeys)]]

\* applyIsolateMode on the edge lines
isolateEdges(st, eds, lines) ==
    IF ~st.isolateMode \/ ~Truthy(st.selected)
    THEN [i \in 1..Len(lines) |-> [lines[i] EXCEPT !.dim = FALSE]]
    ELSE LET visibleKeys == getNeighborKeys(eds, st.selected)
         IN [i \in 1..Len(lines) |->
                [lines[i] EXCEPT
                   !.dim = ~(lines[i].from \in visibleKeys /\ lines[i].to \in visibleKeys)]]

\* updateNodeSelection
updateNodeSelection(st, nodes) ==
    [i \in 1..Len(nodes) |-> [nodes[i] EXCEPT !.selected = (nodes[i].key = st.selected)]]

\* renderDiagram, the edge lines: created for the edges whose endpoints have a
\* position, then updateEdgeVisibility and applyIsolateMode
renderEdgeLines(st, tbls, eds) ==
    LET drawn == SelectSeq(eds, LAMBDA e : e.from \in nodePosKeys(tbls)
                                        /\ e.to \in nodePosKeys(tbls))
        created == [i \in 1..Len(drawn) |->
                      [from |-> drawn[i].from, to |-> drawn[i].to, highlight |-> FALSE,
                       markerEnd |-> "url(#arrow)", opacity |-> "", dim |-> FALSE]]
    IN isolateEdges(st, eds, updateEdgeVisibility(st, created))

\* renderDiagram, the nodes: one per table, then applyIsolateMode
renderNodes(st, tbls, eds, issues) ==
    LET created == [i \in 1..Len(tbls) |->
                      [key |-> tbls[i].key,
                       selected |-> (st.selected = tbls[i].key),
                       warning |-> (\E k \in 1..Len(issues) : issues[k].table = Prop(tbls[i], "name")),
                       dim |-> FALSE]]
    IN isolateNodes(st, eds, created)

(***************************************************************************)
(* Sidebar and inspector (app.js 886-967, 1151-1177)                       *)
(***************************************************************************)
\* renderSidebar, the object list (no filter set): grouped by type
renderSidebar(st, objs) ==
    LET groups == <<"table", "enum", "view", "function", "trigger">>
    IN Concat([g \in 1..Len(groups) |->
          LET items == SelectSeq(objs, LAMBDA o : Prop(o, "type") = groups[g])
          IN [i \in 1..Len(items) |->
                [key |-> items[i].key, selected |-> (st.selected = items[i].key)]]])

\* variant: a key that is not in the dataset shows the placeholder of no selection
renderInspectorEmptyOnMiss(st, objs) ==
    IF ~Truthy(activeKey(st)) THEN [shows |-> "empty"]
    ELSE IF byKey(objs, activeKey(st)) = <<>> THEN [shows |-> "empty"]
    ELSE [shows |-> "object", key |-> byKey(objs, activeKey(st))[1].key]

\* renderInspector: the placeholder, the not-found message, or the object's panel
renderInspector(st, objs) ==
    IF ~Truthy(activeKey(st)) THEN [shows |-> "empty"]
    ELSE IF byKey(objs, activeKey(st)) = <<>> THEN [shows |-> "notfound"]
    ELSE [shows |-> "object", key |-> byKey(objs, activeKey(st))[1].key]

(***************************************************************************)
(* Startup: the script body and init() (app.js 17-29, 795-881, 1961-1972)  *)
(***************************************************************************)
state0 ==
    [view |-> "diagram", selected |-> Null, hovered |-> Null, showEdges |-> "focus",
     isolateMode |-> FALSE, zoom |-> 1000, pan |-> [x |-> 0, y |-> 0]]

InitRest ==
    /\ pc = "loading"
    /\ consoleErrors = <<>>
    /\ nodePos = <<>>
    /\ auditCalls = 0
    /\ fkIndexIssues = <<>>
    /\ tables = <<>>
    /\ edges = <<>>
    /\ state = state0
    /\ svgEdges = <<>>
    /\ svgNodes = <<>>
    /\ listItems = <<>>
    /\ inspector = [shows |-> "nothing"]
    /\ isPanning = FALSE
    /\ startPoint = [x |-> 0, y |-> 0]
    /\ gestures = 0

\* data.js defined window.SCHEMA with an array of objects
InitWith(datasets) ==
    /\ schemaShape = "ok"
    /\ objects \in datasets
    /\ InitRest

\* data.js did not load, or window.SCHEMA.objects is not an array
InitBroken ==
    /\ schemaShape \in {"absent", "objectsNotArray"}
    /\ objects = <<>>
    /\ InitRest

\* variant: the guard only looks for window.SCHEMA
schemaMissingOnlyAbsent(shape, objs) == shape = "absent"

\* !window.SCHEMA || !Array.isArray(window.SCHEMA.objects); the entries of the
\* array are not looked at
schemaMissing(shape, objs) ==
    \/ shape = "absent"
    \/ shape = "objectsNotArray"

Startup ==
    /\ pc = "loading"
    /\ IF schemaMissing(schemaShape, objects)
       THEN /\ pc' = "failed"
            /\ consoleErrors' = Append(consoleErrors,
                   "SCHEMA not found. Make sure data.js loads before app.js.")
            /\ UNCHANGED <<nodePos, auditCalls, fkIndexIssues, tables, edges, listItems,
                           svgEdges, svgNodes, inspector>>
       ELSE /\ pc' = "ready"
            /\ UNCHANGED consoleErrors
            /\ fkIndexIssues' = runAudit(fkIndexIssues, objects)
            /\ auditCalls' = auditCalls + 1
            /\ tables' = SelectSeq(objects, LAMBDA o : Prop(o, "type") = "table")
            /\ nodePos' = layout(tables')
            /\ edges' = buildEdges(objects, tables')
            /\ listItems' = renderSidebar(state, objects)
            /\ svgEdges' = renderEdgeLines(state, tables', edges')
            /\ svgNodes' = renderNodes(state, tables', edges', fkIndexIssues')
            /\ inspector' = renderInspector(state, objects)
    /\ UNCHANGED <<schemaShape, objects, state, isPanning, startPoint, gestures>>

\* a further call of auditFkIndexes() after load
AuditAgain ==
    /\ pc = "ready"
    /\ auditCalls < MaxAudits
    /\ auditCalls' = auditCalls + 1
    /\ fkIndexIssues' = runAudit(fkIndexIssues, objects)
    /\ UNCHANGED <<schemaShape, objects, pc, consoleErrors, nodePos, tables, edges, state,
                   svgEdges, svgNodes, listItems, inspector, isPanning, startPoint,
                   gestures>>

(***************************************************************************)
(* Load-time specification: every generated dataset, loaded once           *)
(***************************************************************************)
InitLoad ==
    \/ InitWith(AuditDatasets \cup GraphDatasets \cup LayoutDatasets \cup MalformedDatasets)
    \/ InitBroken
NextLoad == Startup \/ AuditAgain
SpecLoad == InitLoad /\ [][NextLoad]_vars

(***************************************************************************)
(* Handlers (app.js 1893-1956, 1974-2113)                                  *)
(***************************************************************************)
fixed == <<schemaShape, objects, pc, consoleErrors, nodePos, auditCalls, fkIndexIssues,
           tables, edges>>

\* variant: selecting the selected key again deselects it
selectObjectToggles(key) ==
    /\ state' = [state EXCEPT !.selected = IF state.selected = key THEN Null ELSE key]
    /\ UNCHANGED <<fixed, isPanning, startPoint, gestures>>
    /\ listItems' = renderSidebar(state', objects)
    /\ svgNodes' = isolateNodes(state', edges, updateNodeSelection(state', svgNodes))
    /\ svgEdges' = isolateEdges(state', edges, updateEdgeVisibility(state', svgEdges))
    /\ inspector' = renderInspector(state', objects)

\* variant: a selection also drops the hover
selectObjectDropsHover(key) ==
    /\ state' = [state EXCEPT !.selected = key, !.hovered = Null]
    /\ UNCHANGED <<fixed, isPanning, startPoint, gestures>>
    /\ listItems' = renderSidebar(state', objects)
    /\ svgNodes' = isolateNodes(state', edges, updateNodeSelection(state', svgNodes))
    /\ svgEdges' = isolateEdges(state', edges, updateEdgeVisibility(state', svgEdges))
    /\ inspector' = renderInspector(state', objects)

selectObject(key) ==
    /\ state' = [state EXCEPT !.selected = key]
    /\ UNCHANGED <<fixed, isPanning, startPoint, gestures>>
    /\ listItems' = renderSidebar(state', objects)
    /\ svgNodes' = isolateNodes(state', edges, updateNodeSelection(state', svgNodes))
    /\ svgEdges' = isolateEdges(state', edges, updateEdgeVisibility(state', svgEdges))
    /\ inspector' = renderInspector(state', objects)

\* variant: a hover only refreshes the edges
hoverObjectStaleInspector(key) ==
    /\ state' = [state EXCEPT !.hovered = key]
    /\ UNCHANGED <<fixed, listItems, svgNodes, isPanning, startPoint, gestures>>
    /\ svgEdges' = updateEdgeVisibility(state', svgEdges)
    /\ inspector' = inspector

hoverObject(key) ==
    /\ state' = [state EXCEPT !.hovered = key]
    /\ UNCHANGED <<fixed, listItems, svgNodes, isPanning, startPoint, gestures>>
    /\ svgEdges' = updateEdgeVisibility(state', svgEdges)
    /\ inspector' = IF ~Truthy(state'.selected) THEN renderInspector(state', objects)
                    ELSE inspector

modes == <<"focus", "all", "off">>

\* modes.indexOf(m), 0-based, -1 when absent
indexOf(m) == IF \E i \in 1..Len(modes) : modes[i] = m
              THEN (CHOOSE i \in 1..Len(modes) : modes[i] = m) - 1
              ELSE -1

\* variant: the index saturates at the last mode
nextEdgeModeSaturating(m) == modes[Min(indexOf(m) + 1, Len(modes) - 1) + 1]

\* modes[(idx + 1) % modes.length]
nextEdgeMode(m) == modes[((indexOf(m) + 1) % Len(modes)) + 1]

cycleEdgeMode ==
    /\ pc = "ready"
    /\ state' = [state EXCEPT !.showEdges = nextEdgeMode(state.showEdges)]
    /\ UNCHANGED <<fixed, listItems, svgNodes, inspector, isPanning, startPoint, gestures>>
    /\ svgEdges' = updateEdgeVisibility(state', svgEdges)

\* variant: the view switch starts from a cleared selection
setViewResetsSelection(view) ==
    /\ state' = [state EXCEPT !.view = view, !.selected = Null]
    /\ UNCHANGED <<fixed, listItems, inspector, isPanning, startPoint, gestures>>
    /\ IF view = "diagram"
       THEN /\ svgEdges' = renderEdgeLines(state', tables, edges)
            /\ svgNodes' = renderNodes(state', tables, edges, fkIndexIssues)
       ELSE UNCHANGED <<svgEdges, svgNodes>>

setView(view) ==
    /\ state' = [state EXCEPT !.view = view]
    /\ UNCHANGED <<fixed, listItems, inspector, isPanning, startPoint, gestures>>
    /\ IF view = "diagram"
       THEN /\ svgEdges' = renderEdgeLines(state', tables, edges)
            /\ svgNodes' = renderNodes(state', tables, edges, fkIndexIssues)
       ELSE UNCHANGED <<svgEdges, svgNodes>>

\* click on a g.diagram-node
NodeClick(i) ==
    /\ pc = "ready"
    /\ selectObject(svgNodes[i].key)

\* mouseenter on a g.diagram-node
NodeMouseEnter(i) ==
    /\ pc = "ready"
    /\ hoverObject(svgNodes[i].key)

\* mouseleave on a g.diagram-node
NodeMouseLeave ==
    /\ pc = "ready"
    /\ svgNodes # <<>>
    /\ hoverObject(Null)

\* click on a div.list-item of the sidebar
ListItemClick(i) ==
    /\ pc = "ready"
    /\ selectObject(listItems[i].key)

\* variant: the TOC link selects by the object's name
TocLinkClickByName(i) ==
    /\ pc = "ready"
    /\ Prop(objects[i], "type") \in {"table", "view", "function", "trigger", "enum"}
    /\ selectObject(objects[i].name)

\* click on an a.toc-link of the TOC dialog (built from byType for the five types)
TocLinkClick(i) ==
    /\ pc = "ready"
    /\ Prop(objects[i], "type") \in {"table", "view", "function", "trigger", "enum"}
    /\ selectObject(objects[i].key)

\* click on a .seg tab
TabClick(view) ==
    /\ pc = "ready"
    /\ setView(view)

\* variant: the handler flips the flag instead of reading the checkbox
IsolateChangeToggles(checked) ==
    /\ pc = "ready"
    /\ state' = [state EXCEPT !.isolateMode = ~state.isolateMode]
    /\ UNCHANGED <<fixed, listItems, inspector, isPanning, startPoint, gestures>>
    /\ svgNodes' = isolateNodes(state', edges, svgNodes)
    /\ svgEdges' = isolateEdges(state', edges, svgEdges)

\* change of #isolateCheckbox
IsolateChange(checked) ==
    /\ pc = "ready"
    /\ state' = [state EXCEPT !.isolateMode = checked]
    /\ UNCHANGED <<fixed, listItems, inspector, isPanning, startPoint, gestures>>
    /\ svgNodes' = isolateNodes(state', edges, svgNodes)
    /\ svgEdges' = isolateEdges(state', edges, svgEdges)

\* click on #btnFit
FitClick ==
    /\ pc = "ready"
    /\ state' = [state EXCEPT !.zoom = 1000, !.pan = [x |-> 0, y |-> 0]]
    /\ UNCHANGED <<fixed, svgEdges, svgNodes, listItems, inspector, isPanning, startPoint,
                   gestures>>

\* click on #btnResetView
ResetViewClick ==
    /\ pc = "ready"
    /\ state' = [state EXCEPT !.zoom = 1000, !.pan = [x |-> 0, y |-> 0]]
    /\ UNCHANGED <<fixed, svgEdges, svgNodes, listItems, inspector, isPanning, startPoint,
                   gestures>>

\* pointer positions (clientX, clientY) of the mouse events
Points == {[x |-> 0, y |-> 0], [x |-> 3, y |-> 4]}
DownPoints == {[x |-> 0, y |-> 0]}

\* the mousedown listener; onSvg: e.target is the svg itself, not a node or a line
onMouseDown(onSvg, p) ==
    /\ IF onSvg
       THEN /\ isPanning' = TRUE
            /\ startPoint' = [x |-> p.x - state.pan.x, y |-> p.y - state.pan.y]
       ELSE UNCHANGED <<isPanning, startPoint>>
    /\ UNCHANGED <<fixed, state, svgEdges, svgNodes, listItems, inspector>>

\* mousedown on #schemaSvg
MouseDown(onSvg, p) ==
    /\ pc = "ready"
    /\ IF onSvg THEN gestures < MaxGestures /\ gestures' = gestures + 1
                ELSE UNCHANGED gestures
    /\ onMouseDown(onSvg, p)

\* variant: the mousemove listener does not look at isPanning
MouseMoveAlwaysPans(p) ==
    /\ pc = "ready"
    /\ state' = [state EXCEPT !.pan = [x |-> p.x - startPoint.x, y |-> p.y - startPoint.y]]
    /\ UNCHANGED <<fixed, svgEdges, svgNodes, listItems, inspector, isPanning, startPoint,
                   gestures>>

\* mousemove on #schemaSvg
MouseMove(p) ==
    /\ pc = "ready"
    /\ IF isPanning
       THEN state' = [state EXCEPT !.pan = [x |-> p.x - startPoint.x,
                                            y |-> p.y - startPoint.y]]
       ELSE UNCHANGED state
    /\ UNCHANGED <<fixed, svgEdges, svgNodes, listItems, inspector, isPanning, startPoint,
                   gestures>>

\* mouseup on #schemaSvg
MouseUp ==
    /\ pc = "ready"
    /\ isPanning' = FALSE
    /\ UNCHANGED <<fixed, state, svgEdges, svgNodes, listItems, inspector, startPoint,
                   gestures>>

\* mouseleave on #schemaSvg
MouseLeave ==
    /\ pc = "ready"
    /\ isPanning' = FALSE
    /\ UNCHANGED <<fixed, state, svgEdges, svgNodes, listItems, inspector, startPoint,
                   gestures>>

\* zoom is kept in thousandths
ZoomMin == 250
ZoomMax == 3000

\* variant: the scaled zoom is stored as it is
onWheelUnclamped(down) ==
    /\ LET scaled == IF down THEN (state.zoom * 9) \div 10 ELSE (state.zoom * 11) \div 10
       IN state' = [state EXCEPT !.zoom = scaled]
    /\ UNCHANGED <<fixed, svgEdges, svgNodes, listItems, inspector, isPanning, startPoint>>

\* the wheel listener; down: e.deltaY > 0
onWheel(down) ==
    /\ LET scaled == IF down THEN (state.zoom * 9) \div 10 ELSE (state.zoom * 11) \div 10
       IN state' = [state EXCEPT !.zoom = Max(ZoomMin, Min(ZoomMax, scaled))]
    /\ UNCHANGED <<fixed, svgEdges, svgNodes, listItems, inspector, isPanning, startPoint>>

\* wheel on #schemaSvg
Wheel(down) ==
    /\ pc = "ready"
    /\ gestures < MaxGestures
    /\ gestures' = gestures + 1
    /\ onWheel(down)

\* wheel on #schemaSvg, in a long run of wheel events
WheelRun(down) ==
    /\ pc = "ready"
    /\ gestures < MaxWheels
    /\ gestures' = gestures + 1
    /\ onWheel(down)

\* mousedown on #schemaSvg, in a run of several drags
MouseDownRun(onSvg, p) ==
    /\ pc = "ready"
    /\ IF onSvg THEN gestures < MaxDrags /\ gestures' = gestures + 1
                ELSE UNCHANGED gestures
    /\ onMouseDown(onSvg, p)

\* variant: Escape only deselects
escapeKeyKeepsHover ==
    /\ state' = [state EXCEPT !.selected = Null]
    /\ UNCHANGED <<fixed, isPanning, startPoint, gestures>>
    /\ listItems' = renderSidebar(state', objects)
    /\ svgNodes' = isolateNodes(state', edges, updateNodeSelection(state', svgNodes))
    /\ svgEdges' = isolateEdges(state', edges, updateEdgeVisibility(state', svgEdges))
    /\ inspector' = renderInspector(state', objects)

\* the Escape branch of the keydown handler
escapeKey ==
    /\ state' = [state EXCEPT !.selected = Null, !.hovered = Null]
    /\ UNCHANGED <<fixed, isPanning, startPoint, gestures>>
    /\ listItems' = renderSidebar(state', objects)
    /\ svgNodes' = isolateNodes(state', edges, updateNodeSelection(state', svgNodes))
    /\ svgEdges' = isolateEdges(state', edges, updateEdgeVisibility(state', svgEdges))
    /\ inspector' = renderInspector(state', objects)

KeyNames == {"Escape", "1", "2", "3", "a"}

\* keydown on document
KeyDown(key) ==
    /\ pc = "ready"
    /\ IF key = "Escape" THEN escapeKey
       ELSE IF key = "1" THEN setView("diagram")
       ELSE IF key = "2" THEN setView("docs")
       ELSE IF key = "3" THEN setView("glossary")
       ELSE UNCHANGED vars

(***************************************************************************)
(* The application: load, then any sequence of UI events                   *)
(***************************************************************************)
Init == InitWith(UIDatasets) \/ InitBroken

Next ==
    \/ Startup
    \/ \E i \in 1..Len(svgNodes) : NodeClick(i)
    \/ \E i \in 1..Len(svgNodes) : NodeMouseEnter(i)
    \/ NodeMouseLeave
    \/ \E i \in 1..Len(listItems) : ListItemClick(i)
    \/ \E i \in 1..Len(objects) : TocLinkClick(i)
    \/ \E view \in {"diagram", "docs", "glossary"} : TabClick(view)
    \/ cycleEdgeMode
    \/ \E checked \in BOOLEAN : IsolateChange(checked)
    \/ FitClick
    \/ ResetViewClick
    \/ \E onSvg \in BOOLEAN, p \in DownPoints : MouseDown(onSvg, p)
    \/ \E p \in Points : MouseMove(p)
    \/ MouseUp
    \/ MouseLeave
    \/ \E down \in BOOLEAN : Wheel(down)
    \/ \E key \in KeyNames : KeyDown(key)

Spec == Init /\ [][Next]_vars

(***************************************************************************)
(* Pan and zoom: one dataset, long runs of wheel events, Fit, Reset, drags  *)
(***************************************************************************)
InitZoom == InitWith({UIGraph(MkCols(<<"b", "c">>), MkCols(<<"c">>))})

NextZoom ==
    \/ Startup
    \/ \E down \in BOOLEAN : WheelRun(down)
    \/ FitClick
    \/ ResetViewClick
    \/ \E onSvg \in BOOLEAN, p \in DownPoints : MouseDown(onSvg, p)
    \/ \E p \in Points : MouseMove(p)
    \/ MouseUp
    \/ MouseLeave

SpecZoom == InitZoom /\ [][NextZoom]_vars

(***************************************************************************)
(* Drags: one dataset, several drags starting anywhere, Reset view         *)
(***************************************************************************)
DragPoints == Points \cup {[x |-> -5, y |-> 7]}

NextDrag ==
    \/ Startup
    \/ \E onSvg \in BOOLEAN, p \in DragPoints : MouseDownRun(onSvg, p)
    \/ \E p \in DragPoints : MouseMove(p)
    \/ MouseUp
    \/ MouseLeave
    \/ ResetViewClick

SpecDrag == InitZoom /\ [][NextDrag]_vars

(***************************************************************************)
(* Lookups: selectObject and hoverObject called with any key, also one that *)
(* no object of the dataset has                                             *)
(***************************************************************************)
StaleKeys == {"table_gone"}

SelectCall(key) ==
    /\ pc = "ready"
    /\ selectObject(key)

HoverCall(key) ==
    /\ pc = "ready"
    /\ hoverObject(key)

NextLookup ==
    \/ Startup
    \/ \E key \in Keys(objects) \cup StaleKeys : SelectCall(key)
    \/ \E key \in Keys(objects) \cup StaleKeys \cup {Null} : HoverCall(key)
    \/ \E checked \in BOOLEAN : IsolateChange(checked)
    \/ cycleEdgeMode
    \/ KeyDown("Escape")

SpecLookup == Init /\ [][NextLookup]_vars

(***************************************************************************)
(* Properties of the loaded model                                          *)
(***************************************************************************)
Range(s) == {s[i] : i \in 1..Len(s)}
TableObjs == {o \in Range(objects) : Prop(o, "type") = "table"}
FkColsOf(t) == {c \in Range(Columns(t)) : Has(c, "fk")}

\* some index of t lists column n first
LeadsAnIndex(t, n) ==
    \E idx \in Range(Indexes(t)) :
        Has(idx, "columns") /\ idx.columns # <<>> /\ Head(idx.columns) = n

HasFinding(tn, cn) == \E f \in Range(fkIndexIssues) : f.table = tn /\ f.column = cn

\* C1: after the audit, for every table and every FK column of it (resolvable or
\* not), there is a finding for (table, column) iff no index of the table has the
\* column as its first column; so a table without indexes has a finding for each
\* FK column, and an index (a, b) does not cover FK column b.
C1_FindingIffNoLeadingIndex ==
    pc = "ready" =>
        \A t \in TableObjs : \A c \in FkColsOf(t) :
            /\ HasFinding(t.name, c.name) <=> ~LeadsAnIndex(t, c.name)
            /\ Indexes(t) = <<>> => HasFinding(t.name, c.name)

\* C1 witness: an index (x_id, y_id), FK column y_id reported, and a dangling FK
C1_Witness ==
    /\ pc = "ready"
    /\ \E t \in TableObjs :
          /\ \E idx \in Range(Indexes(t)) :
                Has(idx, "columns") /\ idx.columns = <<"x_id", "y_id">>
          /\ \E c \in FkColsOf(t) : c.name = "y_id" /\ c.fk.table = "ghost"
          /\ \E c \in FkColsOf(t) : c.name = "x_id"
          /\ HasFinding(t.name, "y_id")
          /\ ~HasFinding(t.name, "x_id")

\* the FK columns whose referenced name is the name of a table, as <<i, j>>:
\* column j of the object at position i
ResolvableFks ==
    {p \in (1..Len(objects)) \X (1..(MaxCols + 1)) :
        /\ Prop(objects[p[1]], "type") = "table"
        /\ p[2] <= Len(Columns(objects[p[1]]))
        /\ Has(Columns(objects[p[1]])[p[2]], "fk")
        /\ \E t \in TableObjs : Prop(t, "name") = Columns(objects[p[1]])[p[2]].fk.table}

\* table order, then column order
Before(p, q) == p[1] < q[1] \/ (p[1] = q[1] /\ p[2] <= q[2])
RankOf(p) == Cardinality({q \in ResolvableFks : Before(q, p)})

\* C2: the edge list holds exactly one edge {from: source key, to: target key,
\* label: column name} per FK column whose referenced name resolves to a table, in
\* table order then column order, and none for an unresolvable reference.
C2_EdgesAreResolvableFks ==
    pc = "ready" =>
        /\ Len(edges) = Cardinality(ResolvableFks)
        /\ \A p \in ResolvableFks :
              LET src == objects[p[1]]
                  col == Columns(src)[p[2]]
                  e == edges[RankOf(p)]
              IN /\ e.from = src.key
                 /\ e.label = col.name
                 /\ \E t \in TableObjs : Prop(t, "name") = col.fk.table /\ e.to = t.key
        /\ \A k \in 1..Len(edges) :
              /\ edges[k].from \in {t.key : t \in TableObjs}
              /\ edges[k].to \in {t.key : t \in TableObjs}

\* C2 witness: a dangling FK that gives no edge next to one that does, and an FK
\* to the table that shares its name with a view
C2_Witness ==
    /\ pc = "ready"
    /\ Len(edges) = 2
    /\ edges[1] = [from |-> "table_a", to |-> "table_c", label |-> "y_id"]
    /\ edges[2].from = "table_b"
    /\ \E c \in FkColsOf(objects[3]) : c.fk.table = "ghost"

\* C3: for all keys A and B, B is a neighbour of A iff A is a neighbour of B, and
\* A is always a neighbour of itself, also when A has no edge.
C3_NeighborSymmetry ==
    pc = "ready" =>
        \A A \in Keys(objects) :
            /\ A \in getNeighborKeys(edges, A)
            /\ \A B \in Keys(objects) :
                  B \in getNeighborKeys(edges, A) <=> A \in getNeighborKeys(edges, B)

\* C3 witness: a one-directional edge a -> b, and table c without any edge
C3_Witness ==
    /\ pc = "ready"
    /\ \E k \in 1..Len(edges) : edges[k].from = "table_a" /\ edges[k].to = "table_b"
    /\ \A k \in 1..Len(edges) : ~(edges[k].from = "table_b" /\ edges[k].to = "table_a")
    /\ "table_a" \in getNeighborKeys(edges, "table_b")
    /\ getNeighborKeys(edges, "table_c") = {"table_c"}

(***************************************************************************)
(* Properties of the interaction                                           *)
(***************************************************************************)
Isolating == pc = "ready" /\ state.isolateMode /\ state.selected # Null

\* C4: whenever isolation is enabled and a key T is selected, a diagram node is
\* dimmed iff its key is not a neighbour of T, and an edge is dimmed iff at least
\* one of its endpoints is not a neighbour of T.
C4_IsolationDimming ==
    Isolating =>
        LET N == getNeighborKeys(edges, state.selected)
        IN /\ \A n \in Range(svgNodes) : n.dim <=> n.key \notin N
           /\ \A l \in Range(svgEdges) : l.dim <=> (l.from \notin N \/ l.to \notin N)

\* C4 witness: b selected in the chain a -> b, a -> c: node c is dimmed, a is not,
\* the edge a -> c (one endpoint outside) is dimmed, the edge a -> b is not
C4_Witness ==
    /\ Isolating
    /\ state.selected = "table_b"
    /\ \E n \in Range(svgNodes) : n.key = "table_c" /\ n.dim
    /\ \E n \in Range(svgNodes) : n.key = "table_a" /\ ~n.dim
    /\ \E l \in Range(svgEdges) : l.from = "table_a" /\ l.to = "table_c" /\ l.dim
    /\ \E l \in Range(svgEdges) : l.from = "table_a" /\ l.to = "table_b" /\ ~l.dim

NothingDimmed ==
    /\ \A n \in Range(svgNodes) : ~n.dim
    /\ \A l \in Range(svgEdges) : ~l.dim

\* the two sequences of elements differ at most in the is-dim class
SameButDim(old, new) ==
    /\ Len(new) = Len(old)
    /\ \A i \in 1..Len(old) : [new[i] EXCEPT !.dim = old[i].dim] = old[i]

IsolateStep == \E checked \in BOOLEAN : IsolateChange(checked)

\* C5: whenever isolation is disabled or nothing is selected, no node and no edge
\* is dimmed; and the isolation checkbox handler changes only isolateMode and the
\* dimming: selected, hovered, edge mode, pan, zoom and view stay as they were.
C5_NoDimmingUnlessIsolating ==
    /\ [](pc = "ready" /\ (~state.isolateMode \/ state.selected = Null) => NothingDimmed)
    /\ [][IsolateStep =>
            /\ state' = [state EXCEPT !.isolateMode = state'.isolateMode]
            /\ SameButDim(svgNodes, svgNodes')
            /\ SameButDim(svgEdges, svgEdges')
            /\ UNCHANGED <<listItems, inspector, isPanning, startPoint>>]_vars

\* C5 witness: isolation off with b selected and c outside b's neighbourhood, hover,
\* edge mode, zoom, pan and view all away from their defaults, nothing dimmed
C5_Witness ==
    /\ pc = "ready"
    /\ ~state.isolateMode
    /\ state.selected = "table_b"
    /\ "table_c" \notin getNeighborKeys(edges, "table_b")
    /\ state.hovered = "table_c"
    /\ state.showEdges = "all"
    /\ state.zoom # 1000 \/ state.pan # [x |-> 0, y |-> 0]
    /\ state.view = "docs"
    /\ NothingDimmed

\* the key the rendering is about: the selected key if there is one, else the hovered
ActiveKey == IF state.selected # Null THEN state.selected ELSE state.hovered

\* C6: each edge's opacity is determined by the edge mode and its highlight flag
\* alone: focus - 1 if highlighted, else 0; all - 1 if highlighted, else 0.4;
\* off - 0 whatever the highlight or the selection.
C6_OpacityByModeAndHighlight ==
    pc = "ready" =>
        \A l \in Range(svgEdges) :
            /\ state.showEdges = "focus" => l.opacity = (IF l.highlight THEN "1" ELSE "0")
            /\ state.showEdges = "all" => l.opacity = (IF l.highlight THEN "1" ELSE "0.4")
            /\ state.showEdges = "off" => l.opacity = "0"

\* C6 witness: mode off with a selected table whose edge is highlighted yet hidden
C6_Witness ==
    /\ pc = "ready"
    /\ state.showEdges = "off"
    /\ state.selected = "table_a"
    /\ \E l \in Range(svgEdges) : l.highlight /\ l.opacity = "0"

CycleFrame ==
    /\ state' = [state EXCEPT !.showEdges = state'.showEdges]
    /\ \/ state.showEdges = "focus" /\ state'.showEdges = "all"
       \/ state.showEdges = "all" /\ state'.showEdges = "off"
       \/ state.showEdges = "off" /\ state'.showEdges = "focus"

\* C7: cycleEdgeMode advances focus -> all -> off -> focus: the mode is always one
\* of the three, three cycles from the current mode give the current mode again,
\* and a cycle changes no other field of the interaction state.
C7_EdgeModeCycle ==
    /\ [](/\ state.showEdges \in {"focus", "all", "off"}
          /\ nextEdgeMode(nextEdgeMode(nextEdgeMode(state.showEdges))) = state.showEdges)
    /\ [][cycleEdgeMode => CycleFrame]_vars

\* C7 witness: mode off (two cycles done) with selection, hover, isolation, zoom,
\* pan and view away from their defaults
C7_Witness ==
    /\ pc = "ready"
    /\ state.showEdges = "off"
    /\ state.selected = "table_a"
    /\ state.hovered = "table_b"
    /\ state.isolateMode
    /\ state.zoom # 1000 \/ state.pan # [x |-> 0, y |-> 0]
    /\ state.view = "glossary"

Highlighted(lines) == {i \in 1..Len(lines) : lines[i].highlight}

\* C8: an edge is highlighted iff the active key (selected if present, else
\* hovered) is one of its endpoints; so while a key stays selected, a hover on
\* another node leaves the set of highlighted edges as it was.
C8_HighlightFollowsActiveKey ==
    /\ [](pc = "ready" =>
            \A l \in Range(svgEdges) :
                l.highlight <=> (ActiveKey # Null /\ (l.from = ActiveKey \/ l.to = ActiveKey)))
    /\ [][(state.selected # Null /\ state'.selected = state.selected
           /\ state'.hovered # state.hovered)
          => Highlighted(svgEdges') = Highlighted(svgEdges)]_vars

\* C8 witness: c selected, a hovered, a -> b exists and is not highlighted while
\* the edges at c are
C8_Witness ==
    /\ pc = "ready"
    /\ state.selected = "table_c"
    /\ state.hovered = "table_a"
    /\ \E l \in Range(svgEdges) : l.from = "table_a" /\ l.to = "table_b" /\ ~l.highlight
    /\ \E l \in Range(svgEdges) : l.to = "table_c" /\ l.highlight

\* C9: after the Escape handler runs, selected and hovered are both null, no edge
\* is highlighted and nothing is dimmed, even if isolation is still enabled.
C9_EscapeClearsSelectionAndHover ==
    [][KeyDown("Escape") =>
        /\ state'.selected = Null
        /\ state'.hovered = Null
        /\ state'.isolateMode = state.isolateMode
        /\ Highlighted(svgEdges') = {}
        /\ \A n \in Range(svgNodes') : ~n.dim /\ ~n.selected
        /\ \A l \in Range(svgEdges') : ~l.dim
        /\ inspector' = [shows |-> "empty"]]_vars

\* C9 witness: nothing selected or hovered, isolation still enabled, edges present,
\* none highlighted, nothing dimmed
C9_Witness ==
    /\ pc = "ready"
    /\ state.selected = Null
    /\ state.hovered = Null
    /\ state.isolateMode
    /\ svgEdges # <<>>
    /\ Highlighted(svgEdges) = {}
    /\ NothingDimmed

HoverStep == (\E i \in 1..Len(svgNodes) : NodeMouseEnter(i)) \/ NodeMouseLeave
SelectStep ==
    \/ \E i \in 1..Len(svgNodes) : NodeClick(i)
    \/ \E i \in 1..Len(listItems) : ListItemClick(i)
    \/ \E i \in 1..Len(objects) : TocLinkClick(i)

\* C10: hoverObject(k) sets only the hovered key and never changes the selected
\* key; selectObject(k) with a key sets only the selected key: hovered, edge mode,
\* isolation flag, pan, zoom and view stay as they were.
C10_SelectHoverFrame ==
    [][/\ HoverStep => state' = [state EXCEPT !.hovered = state'.hovered]
       /\ SelectStep => /\ state' = [state EXCEPT !.selected = state'.selected]
                        /\ state'.selected # Null]_vars

\* C10 witness: a selected and a different hovered key, with edge mode, isolation,
\* zoom, pan and view away from their defaults
C10_Witness ==
    /\ pc = "ready"
    /\ state.selected = "table_a"
    /\ state.hovered = "table_b"
    /\ state.showEdges = "all"
    /\ state.isolateMode
    /\ state.zoom # 1000 \/ state.pan # [x |-> 0, y |-> 0]
    /\ state.view = "docs"

ViewNames == {"diagram", "docs", "glossary"}
ViewStep ==
    \/ \E view \in ViewNames : TabClick(view)
    \/ \E key \in {"1", "2", "3"} : KeyDown(key)

\* C11: a view switch (tab click or key 1/2/3) sets the view to one of diagram,
\* docs, glossary and changes no other field of the interaction state; whenever
\* the switch ends on the diagram, the re-rendered edges are highlighted exactly
\* at the preserved active key, and nodes and edges are dimmed exactly as
\* isolation on the preserved selection requires.
C11_ViewSwitchKeepsSelection ==
    [][ViewStep =>
        /\ state'.view \in ViewNames
        /\ state' = [state EXCEPT !.view = state'.view]
        /\ state'.view = "diagram" =>
              /\ \A l \in Range(svgEdges') :
                    l.highlight <=> (ActiveKey # Null /\ ActiveKey \in {l.from, l.to})
              /\ \A n \in Range(svgNodes') :
                    /\ n.selected <=> (n.key = state.selected)
                    /\ n.dim <=> (state.isolateMode /\ state.selected # Null
                                    /\ n.key \notin getNeighborKeys(edges, state.selected))
              /\ \A l \in Range(svgEdges') :
                    l.dim <=> (state.isolateMode /\ state.selected # Null
                                /\ ~({l.from, l.to} \subseteq
                                        getNeighborKeys(edges, state.selected)))]_vars

\* C11 witness: on the glossary view, reached only by a view switch, with the
\* selection, isolation and edge mode chosen on the diagram still in place and
\* the diagram elements still highlighted and dimmed for that selection
C11_Witness ==
    /\ pc = "ready"
    /\ state.view = "glossary"
    /\ state.selected = "table_b"
    /\ state.isolateMode
    /\ state.showEdges = "off"
    /\ \E l \in Range(svgEdges) : l.highlight
    /\ \E n \in Range(svgNodes) : n.dim

\* C12: the zoom always lies in [0.25, 3.0] (250..3000 thousandths); a wheel
\* event with deltaY > 0 stores zoom * 0.9, any other wheel event zoom * 1.1
\* (to the thousandth), replaced by the bound of the range it would pass; the
\* wheel leaves the pan alone, and a drag stores the pointer offset as the pan
\* whatever its size.
C12_ZoomClampedPanFree ==
    /\ [](ZoomMin <= state.zoom /\ state.zoom <= ZoomMax)
    /\ [][/\ WheelRun(TRUE) =>
             (/\ state' = [state EXCEPT !.zoom = state'.zoom]
              /\ (9 * state.zoom < 10 * ZoomMin => state'.zoom = ZoomMin)
              /\ (9 * state.zoom >= 10 * ZoomMin =>
                     /\ 10 * state'.zoom <= 9 * state.zoom
                     /\ 9 * state.zoom < 10 * (state'.zoom + 1)))
          /\ WheelRun(FALSE) =>
             (/\ state' = [state EXCEPT !.zoom = state'.zoom]
              /\ (11 * state.zoom >= 10 * ZoomMax => state'.zoom = ZoomMax)
              /\ (11 * state.zoom < 10 * ZoomMax =>
                     /\ 10 * state'.zoom <= 11 * state.zoom
                     /\ 11 * state.zoom < 10 * (state'.zoom + 1)))
          /\ \A p \in Points : (MouseMove(p) /\ isPanning) =>
                state' = [state EXCEPT !.pan = [x |-> p.x - startPoint.x,
                                                y |-> p.y - startPoint.y]]]_vars

\* C12 witness: the lower bound reached by wheel events alone, with a pan
\* dragged before them still in place
C12_Witness ==
    /\ pc = "ready"
    /\ state.zoom = ZoomMin
    /\ gestures = MaxWheels
    /\ state.pan = [x |-> 3, y |-> 4]

\* C13: a further call of auditFkIndexes on the unchanged dataset leaves the
\* shared findings list equal by value to what the call before left: the same
\* findings in the same order, none of them twice; the list always holds exactly
\* one finding per FK column without a leading index.
C13_AuditIdempotent ==
    /\ [][AuditAgain => fkIndexIssues' = fkIndexIssues]_vars
    /\ [](pc = "ready" =>
            Len(fkIndexIssues) =
                Cardinality({p \in (1..Len(objects)) \X (1..MaxCols + 1) :
                    /\ Prop(objects[p[1]], "type") = "table"
                    /\ p[2] <= Len(Columns(objects[p[1]]))
                    /\ Has(Columns(objects[p[1]])[p[2]], "fk")
                    /\ ~LeadsAnIndex(objects[p[1]], Columns(objects[p[1]])[p[2]].name)}))

\* C13 witness: the audit has run as often as the exploration allows and the list
\* holds the two findings of a table with two uncovered FK columns
C13_Witness ==
    /\ pc = "ready"
    /\ auditCalls = MaxAudits
    /\ Len(fkIndexIssues) = 2
    /\ fkIndexIssues[1].column = "x_id"
    /\ fkIndexIssues[2].column = "y_id"

\* the edges from table src to table tgt, and the FK columns of src that name tgt
EdgesBetween(src, tgt) == {k \in 1..Len(edges) : edges[k].from = src.key /\ edges[k].to = tgt.key}
FkColsTo(src, tgt) ==
    {j \in 1..Len(Columns(src)) :
        Has(Columns(src)[j], "fk") /\ Columns(src)[j].fk.table = Prop(tgt, "name")}

\* C14: for every pair of tables, the edge list holds as many edges from the one
\* to the other as the one has FK columns naming the other, and their labels are
\* those columns' names; several FK columns to the same target give several
\* edges, none merged.
C14_MultiEdgesKept ==
    pc = "ready" =>
        \A src \in TableObjs, tgt \in TableObjs :
            /\ Cardinality(EdgesBetween(src, tgt)) = Cardinality(FkColsTo(src, tgt))
            /\ {edges[k].label : k \in EdgesBetween(src, tgt)}
                 = {Columns(src)[j].name : j \in FkColsTo(src, tgt)}

\* C14 witness: two edges from a to b, labelled x_id and y_id
C14_Witness ==
    /\ pc = "ready"
    /\ \E k1, k2 \in 1..Len(edges) :
          /\ k1 < k2
          /\ edges[k1] = [from |-> "table_a", to |-> "table_b", label |-> "x_id"]
          /\ edges[k2] = [from |-> "table_a", to |-> "table_b", label |-> "y_id"]

\* C15: after load, nodePos has exactly the table keys, and the i-th table
\* (0-based, in dataset order among the tables) is at x = (i mod 6) * (200 + 40) + 50,
\* y = floor(i / 6) * 160 + 50; the positions are a function of the table order
\* alone.
C15_GridLayout ==
    pc = "ready" =>
        /\ DOMAIN nodePos = {tables[n].key : n \in 1..Len(tables)}
        /\ \A n \in 1..Len(tables) :
              LET i == n - 1
              IN nodePos[tables[n].key] =
                    [x |-> (i % 6) * (200 + 40) + 50, y |-> (i \div 6) * 160 + 50]

\* C15 witness: seven tables, the sixth at the end of the first row and the
\* seventh at the start of the second
C15_Witness ==
    /\ pc = "ready"
    /\ Len(tables) >= 7
    /\ nodePos[tables[6].key] = [x |-> 1250, y |-> 50]
    /\ nodePos[tables[7].key] = [x |-> 50, y |-> 210]

\* the dataset is an array with an entry that lacks its name or its type
HasMalformedEntry ==
    /\ schemaShape = "ok"
    /\ \E o \in Range(objects) : ~Has(o, "name") \/ ~Has(o, "type")

\* C16: a dataset with an entry that lacks its name or its type is never
\* initialized: the load ends at the guard, with an error logged, and nothing
\* is rendered.
C16_MalformedRejected ==
    HasMalformedEntry =>
        /\ pc # "ready"
        /\ pc = "failed" => consoleErrors # <<>>
        /\ listItems = <<>> /\ svgNodes = <<>>

\* C17: when window.SCHEMA is absent or its objects field is not an array, the
\* load ends at the guard: an error is logged, the audit list, tables, layout,
\* edges, sidebar, diagram and inspector stay as before the script ran, and from
\* then on no event changes any part of the state.
C17_BrokenDatasetNeverInitializes ==
    /\ [](schemaShape # "ok" =>
            /\ pc \in {"loading", "failed"}
            /\ pc = "failed" => Len(consoleErrors) = 1
            /\ fkIndexIssues = <<>> /\ auditCalls = 0
            /\ tables = <<>> /\ nodePos = <<>> /\ edges = <<>>
            /\ listItems = <<>> /\ svgNodes = <<>> /\ svgEdges = <<>>
            /\ inspector = [shows |-> "nothing"]
            /\ state = state0 /\ ~isPanning)
    /\ [][pc # "failed"]_vars

\* C17 witness: the script returned at the guard for an objects field that is
\* not an array, leaving one logged error
C17_Witness ==
    /\ schemaShape = "objectsNotArray"
    /\ pc = "failed"
    /\ consoleErrors = <<"SCHEMA not found. Make sure data.js loads before app.js.">>

\* C18: byKey has no object for a key outside the dataset; whenever the active
\* key is such a key the inspector shows the not-found message, and the call
\* that made it active changed the interaction state only by storing the key.
C18_UnknownKeyNotFound ==
    /\ [](pc = "ready" =>
            /\ \A k \in StaleKeys : byKey(objects, k) = <<>>
            /\ (ActiveKey # Null /\ ActiveKey \notin Keys(objects))
                  <=> inspector = [shows |-> "notfound"])
    /\ [][\A k \in StaleKeys :
            /\ SelectCall(k) => state' = [state EXCEPT !.selected = k]
            /\ HoverCall(k) => state' = [state EXCEPT !.hovered = k]]_vars

\* C18 witness: a key of no object is selected under isolation; the inspector
\* shows the not-found message and the diagram has every node dimmed
C18_Witness ==
    /\ pc = "ready"
    /\ state.selected \in StaleKeys
    /\ state.isolateMode
    /\ inspector = [shows |-> "notfound"]
    /\ svgNodes # <<>>
    /\ \A n \in Range(svgNodes) : n.dim /\ ~n.selected

\* C19: between any two events of the loaded application, the inspector shows
\* the object whose key is the active key (the selected key if there is one,
\* else the hovered key), or the placeholder when there is neither; a node is
\* marked selected iff its key is the selected key, and so is a sidebar item.
C19_DerivedRenderingFresh ==
    pc = "ready" =>
        /\ inspector = IF ActiveKey = Null THEN [shows |-> "empty"]
                       ELSE [shows |-> "object", key |-> ActiveKey]
        /\ \A n \in Range(svgNodes) : n.selected <=> (n.key = state.selected)
        /\ \A it \in Range(listItems) : it.selected <=> (it.key = state.selected)

\* C19 witness: after a hover on a, a click on b and a hover on c, the inspector
\* still shows b and only b's node is marked
C19_Witness ==
    /\ pc = "ready"
    /\ state.selected = "table_b"
    /\ state.hovered = "table_c"
    /\ inspector = [shows |-> "object", key |-> "table_b"]
    /\ \E n \in Range(svgNodes) : n.selected /\ n.key = "table_b"
    /\ state.view = "diagram"
    /\ state.showEdges = "all"

\* C20: in every state of the loaded application the node whose key is the
\* selected key is not dimmed, with isolation on or off, in every edge mode and
\* with or without a hovered key.
C20_SelectedNodeNeverDimmed ==
    pc = "ready" => \A n \in Range(svgNodes) : n.key = state.selected => ~n.dim

\* C20 witness: isolation on c, which has no edge to itself: c's node is not
\* dimmed while another node is, edges hidden and a hover elsewhere
C20_Witness ==
    /\ pc = "ready"
    /\ state.isolateMode
    /\ state.selected = "table_c"
    /\ state.hovered = "table_a"
    /\ state.showEdges = "off"
    /\ \A e \in Range(edges) : ~(e.from = "table_c" /\ e.to = "table_c")
    /\ \E n \in Range(svgNodes) : n.key = "table_c" /\ ~n.dim
    /\ \E n \in Range(svgNodes) : n.dim

\* the edge mode alone hides the line
ModeHidden(l) == state.showEdges = "off" \/ (state.showEdges = "focus" /\ ~l.highlight)

\* C21: an edge line that the edge mode hides has opacity 0, dimmed by isolation
\* or not; the isolation checkbox changes no line's opacity, highlight or marker
\* and nothing of a node but its dimming; cycling the edge mode changes no
\* dimming of a node or a line.
C21_HiddenWinsOverDimming ==
    /\ [](pc = "ready" => \A l \in Range(svgEdges) : ModeHidden(l) => l.opacity = "0")
    /\ [][IsolateStep => SameButDim(svgEdges, svgEdges') /\ SameButDim(svgNodes, svgNodes')]_vars
    /\ [][cycleEdgeMode =>
            /\ svgNodes' = svgNodes
            /\ Len(svgEdges') = Len(svgEdges)
            /\ \A i \in 1..Len(svgEdges) : svgEdges'[i].dim = svgEdges[i].dim]_vars

\* C21 witness: in mode "off" under isolation, a dimmed line and an undimmed
\* highlighted line, both at opacity 0
C21_Witness ==
    /\ pc = "ready"
    /\ state.isolateMode
    /\ state.showEdges = "off"
    /\ \E l \in Range(svgEdges) : l.dim /\ l.opacity = "0"
    /\ \E l \in Range(svgEdges) : ~l.dim /\ l.highlight /\ l.opacity = "0"

\* the edges into the table with key k, in edge-list order, each as the pair of
\* its source table's name and its label
IncomingEdgePairs(k) ==
    LET into == SelectSeq(edges, LAMBDA e : e.to = k)
    IN [n \in 1..Len(into) |->
          [table |-> Prop(byKey(objects, into[n].from)[1], "name"),
           column |-> into[n].label]]

\* C22: for every table T of the loaded dataset, findIncomingReferences(T.name)
\* is the sequence of (source table name, column name) pairs of the edges whose
\* `to` is T's key, in edge-list order.
C22_ReferencedByMatchesIncomingEdges ==
    pc = "ready" =>
        \A T \in TableObjs :
            findIncomingReferences(objects, Prop(T, "name")) = IncomingEdgePairs(T.key)

\* C22 witness: table b is referenced by a (twice) and by itself, and a dangling
\* FK elsewhere is in neither list
C22_Witness ==
    /\ pc = "ready"
    /\ IncomingEdgePairs("table_b") =
          <<[table |-> "a", column |-> "x_id"], [table |-> "a", column |-> "y_id"],
            [table |-> "b", column |-> "x_id"]>>
    /\ \E t \in TableObjs : \E c \in FkColsOf(t) : c.fk.table = "ghost"

\* C23: in every state of the loaded application each of Escape, unchecking
\* isolation, cycleEdgeMode, Reset view and setView("diagram") can be taken, and
\* each moves its own part of the interaction state towards the default and
\* leaves the parts the earlier ones put right alone: Escape empties selection
\* and hover, unchecking switches isolation off, cycleEdgeMode reaches focus from
\* all in two steps and from off in one, Reset view gives zoom 1 and pan (0,0),
\* setView gives the diagram; and in the default interaction state nothing is
\* dimmed or highlighted and the inspector shows the placeholder.
C23_DefaultStateRecoverable ==
    /\ [](pc = "ready" =>
            /\ ENABLED KeyDown("Escape")
            /\ ENABLED IsolateChange(FALSE)
            /\ ENABLED cycleEdgeMode
            /\ ENABLED ResetViewClick
            /\ ENABLED TabClick("diagram")
            /\ state = state0 =>
                  /\ NothingDimmed
                  /\ Highlighted(svgEdges) = {}
                  /\ inspector = [shows |-> "empty"])
    /\ [][/\ KeyDown("Escape") =>
                state' = [state EXCEPT !.selected = Null, !.hovered = Null]
          /\ IsolateChange(FALSE) => state' = [state EXCEPT !.isolateMode = FALSE]
          /\ cycleEdgeMode =>
                state' = [state EXCEPT !.showEdges =
                            IF state.showEdges = "all" THEN "off" ELSE
                            IF state.showEdges = "off" THEN "focus" ELSE "all"]
          /\ ResetViewClick =>
                state' = [state EXCEPT !.zoom = 1000, !.pan = [x |-> 0, y |-> 0]]
          /\ TabClick("diagram") => state' = [state EXCEPT !.view = "diagram"]]_vars

\* C23 witness: the default interaction state again, after a wheel event or a
\* drag took place
C23_Witness ==
    /\ pc = "ready"
    /\ gestures = MaxGestures
    /\ state = state0
    /\ NothingDimmed
    /\ Highlighted(svgEdges) = {}
    /\ svgEdges # <<>>
    /\ inspector = [shows |-> "empty"]

\* the (object index, column index) pairs of the FK columns no index leads with
UncoveredFks ==
    {p \in (1..Len(objects)) \X (1..(MaxCols + 1)) :
        /\ Prop(objects[p[1]], "type") = "table"
        /\ p[2] <= Len(Columns(objects[p[1]]))
        /\ Has(Columns(objects[p[1]])[p[2]], "fk")
        /\ ~LeadsAnIndex(objects[p[1]], Columns(objects[p[1]])[p[2]].name)}
FindingRank(p) == Cardinality({q \in UncoveredFks : Before(q, p)})

\* C24: the findings list holds, in table order then column order, one finding
\* per FK column that no index leads with, and it carries the table's name, the
\* column's name, the referenced table name of the foreign key and the
\* suggestion 'CREATE INDEX idx_<table>_<column> ON <table>(<column>);'; no
\* (table, column) pair occurs twice.
C24_FindingContentAndOrder ==
    pc = "ready" =>
        /\ Len(fkIndexIssues) = Cardinality(UncoveredFks)
        /\ \A p \in UncoveredFks :
              LET t == objects[p[1]].name
                  c == Columns(objects[p[1]])[p[2]].name
                  f == fkIndexIssues[FindingRank(p)]
              IN /\ DOMAIN f = {"table", "column", "referencedTable", "suggestion"}
                 /\ f.table = t
                 /\ f.column = c
                 /\ f.referencedTable = Columns(objects[p[1]])[p[2]].fk.table
                 /\ f.suggestion =
                      "CREATE INDEX idx_" \o t \o "_" \o c \o " ON " \o t \o "(" \o c \o ");"
        /\ \A i, j \in 1..Len(fkIndexIssues) :
              (fkIndexIssues[i].table = fkIndexIssues[j].table
                 /\ fkIndexIssues[i].column = fkIndexIssues[j].column) => i = j

\* C24 witness: two findings of table a in column order, the second for a
\* reference to a table that does not exist
C24_Witness ==
    /\ pc = "ready"
    /\ fkIndexIssues =
          <<[table |-> "a", column |-> "x_id", referencedTable |-> "b",
             suggestion |-> "CREATE INDEX idx_a_x_id ON a(x_id);"],
            [table |-> "a", column |-> "y_id", referencedTable |-> "ghost",
             suggestion |-> "CREATE INDEX idx_a_y_id ON a(y_id);"]>>
    /\ \E t \in TableObjs : Indexes(t) # <<>>

\* C25: whenever isolation is enabled and a key is selected, no highlighted edge
\* line is dimmed: the highlighted lines are those at the selected key, and both
\* of their endpoints are neighbours of it.
C25_HighlightedNeverDimmed ==
    Isolating =>
        /\ \A l \in Range(svgEdges) : l.highlight => ~l.dim
        /\ \A l \in Range(svgEdges) :
              l.highlight => {l.from, l.to} \subseteq getNeighborKeys(edges, state.selected)

\* C25 witness: isolation on a key while another is hovered: a line into the
\* selected table is highlighted and undimmed, a line elsewhere is dimmed and not
\* highlighted
C25_Witness ==
    /\ Isolating
    /\ state.hovered # Null
    /\ state.hovered # state.selected
    /\ \E l \in Range(svgEdges) : l.highlight /\ ~l.dim /\ l.to = state.selected
    /\ \E l \in Range(svgEdges) : ~l.highlight /\ l.dim

\* the selected key is the key of an object that is not a table
NonTableSelected ==
    \E o \in Range(objects) : o.key = state.selected /\ Prop(o, "type") # "table"

\* C26: whenever isolation is enabled and the selected key is that of a
\* non-table object, every diagram node and every edge line is dimmed and no
\* edge line is highlighted, whatever is hovered; the neighbour set of such a
\* key is the key alone.
C26_NonTableSelectionDimsAll ==
    (Isolating /\ NonTableSelected) =>
        /\ getNeighborKeys(edges, state.selected) = {state.selected}
        /\ \A n \in Range(svgNodes) : n.dim /\ ~n.selected
        /\ \A l \in Range(svgEdges) : l.dim /\ ~l.highlight

\* C26 witness: the enum picked from the sidebar under isolation, a table
\* hovered, three nodes and at least one line, all dimmed
C26_Witness ==
    /\ Isolating
    /\ state.selected = "enum_status"
    /\ state.hovered = "table_a"
    /\ \E it \in Range(listItems) : it.key = "enum_status" /\ it.selected
    /\ Len(svgNodes) = 3
    /\ svgEdges # <<>>
    /\ \A n \in Range(svgNodes) : n.dim
    /\ \A l \in Range(svgEdges) : l.dim

\* C27: isPanning is set by a mousedown on the SVG background and by nothing
\* else, and cleared by mouseup and mouseleave and by nothing else; that
\* mousedown stores the pointer minus the pan, so a mousemove during the drag
\* makes the pan the pan at mousedown plus the pointer's displacement since; a
\* mousemove while no drag is active changes nothing, and a mousedown on a node
\* or a line starts no drag.
C27_PanOnlyWhileDragging ==
    /\ [][\A p \in DragPoints :
            /\ MouseDownRun(TRUE, p) =>
                  /\ isPanning'
                  /\ [x |-> p.x - startPoint'.x, y |-> p.y - startPoint'.y] = state.pan
                  /\ state' = state
            /\ MouseDownRun(FALSE, p) => UNCHANGED <<isPanning, startPoint, state>>
            /\ (MouseMove(p) /\ isPanning) =>
                  /\ state' = [state EXCEPT !.pan = [x |-> p.x - startPoint.x,
                                                     y |-> p.y - startPoint.y]]
                  /\ UNCHANGED <<isPanning, startPoint>>
            /\ (MouseMove(p) /\ ~isPanning) => UNCHANGED vars]_vars
    /\ [][(MouseUp \/ MouseLeave) => ~isPanning' /\ state' = state]_vars
    /\ [][(~isPanning /\ isPanning') => \E p \in DragPoints : MouseDownRun(TRUE, p)]_vars
    /\ [][(isPanning /\ ~isPanning') => (MouseUp \/ MouseLeave)]_vars
    /\ [][(~isPanning /\ ~isPanning') => (state'.pan = state.pan \/ ResetViewClick)]_vars

\* C27 witness: a second drag, started on the pan (3,4) the first one left, has
\* moved the pointer by (3,4) and the pan to (6,8)
C27_Witness ==
    /\ pc = "ready"
    /\ isPanning
    /\ gestures = 2
    /\ startPoint = [x |-> -3, y |-> -4]
    /\ state.pan = [x |-> 6, y |-> 8]

TableKeys == {t.key : t \in TableObjs}

\* C28: after load, both ends of every edge are keys of tables and have a
\* position in nodePos, the diagram has one line per edge (none skipped), and
\* the neighbours of a table key are table keys.
C28_EdgeEndsArePositionedTables ==
    pc = "ready" =>
        /\ DOMAIN nodePos = TableKeys
        /\ \A e \in Range(edges) : {e.from, e.to} \subseteq TableKeys \cap DOMAIN nodePos
        /\ Len(svgEdges) = Len(edges)
        /\ \A i \in 1..Len(svgEdges) :
              svgEdges[i].from = edges[i].from /\ svgEdges[i].to = edges[i].to
        /\ \A k \in TableKeys : getNeighborKeys(edges, k) \subseteq TableKeys

\* C28 witness: a dataset with a non-table object named like a table and an FK to
\* a table that does not exist: the other FKs give edges, each drawn
C28_Witness ==
    /\ pc = "ready"
    /\ \E o \in Range(objects) : Prop(o, "type") = "view" /\ Prop(o, "name") = "c"
    /\ \E t \in TableObjs : \E c \in FkColsOf(t) : c.fk.table = "ghost"
    /\ \E t \in TableObjs : \E c \in FkColsOf(t) : c.fk.table = "c"
    /\ Len(edges) >= 2
    /\ Len(svgEdges) = Len(edges)

\* C29: a step that empties a non-empty selection is the Escape key; a step that
\* puts another key in the selection is a click on a node, a sidebar item or a
\* TOC link; a click on the node that is selected already leaves it selected;
\* so hover, view, edge-mode, isolation, pan and zoom events never change the
\* selection; the selection and the hover are each one key or null, and at most
\* one node and one sidebar item carry the selected mark.
C29_SelectionLeftOnlyByEscape ==
    /\ [][/\ (state.selected # Null /\ state'.selected = Null) => KeyDown("Escape")
          /\ (state'.selected # state.selected /\ state'.selected # Null) => SelectStep
          /\ \A i \in 1..Len(svgNodes) :
                (svgNodes[i].key = state.selected /\ NodeClick(i))
                    => state'.selected = state.selected]_vars
    /\ [](pc = "ready" =>
            /\ state.selected \in Keys(objects) \cup {Null}
            /\ state.hovered \in Keys(objects) \cup {Null}
            /\ Cardinality({i \in 1..Len(svgNodes) : svgNodes[i].selected}) <= 1
            /\ Cardinality({i \in 1..Len(listItems) : listItems[i].selected}) <= 1)

\* C29 witness: table a is selected and marked, once, after events of every
\* other kind: a hover, another view, edge mode, isolation and a gesture
C29_Witness ==
    /\ pc = "ready"
    /\ state.selected = "table_a"
    /\ state.hovered = "table_c"
    /\ state.view = "docs"
    /\ state.showEdges = "off"
    /\ state.isolateMode
    /\ gestures = MaxGestures
    /\ Cardinality({i \in 1..Len(svgNodes) : svgNodes[i].selected}) = 1

\* C30: in every state the UI events lead to, the selected key is null or the
\* key of an object of the dataset, the hovered key is null or the key of a
\* table, byKey finds the active key, and the inspector does not show the
\* not-found message.
C30_KeysAlwaysKnown ==
    pc = "ready" =>
        /\ state.selected = Null \/ \E o \in Range(objects) : o.key = state.selected
        /\ state.hovered = Null \/ \E t \in TableObjs : t.key = state.hovered
        /\ ActiveKey # Null => byKey(objects, ActiveKey) # <<>>
        /\ inspector.shows # "notfound"

\* C30 witness: an object without a node selected through the sidebar or the
\* TOC, a table hovered, the inspector on the selected object
C30_Witness ==
    /\ pc = "ready"
    /\ state.selected = "enum_status"
    /\ state.hovered = "table_b"
    /\ ~state.isolateMode
    /\ inspector = [shows |-> "object", key |-> "enum_status"]

====
